---- MODULE Spec2Model ----
(***************************************************************************)
(* Model of the outbound delivery pipeline of src/index.js (v2.7.0):       *)
(* the token bucket, the 250 ms drain timer that packs messageQueue into   *)
(* batch payloads, sendToTelegram with its 429 back-off, and               *)
(* encolarMensaje.  Time is in milliseconds, tokens are fixed-point        *)
(* numbers with TOKEN_UNIT units per token.                                *)
(* Spec is the delivery pipeline, SpecEnqueue is encolarMensaje alone and  *)
(* SpecConn is connectOKX and connectBinance: sockets, keep-alive          *)
(* intervals, reconnect timers and the message handlers.                   *)
(***************************************************************************)
EXTENDS Integers, Sequences, FiniteSets, TLC

\* ------------------------------------------------------------------ bounds
MaxMsgs == 2                         \* encolarMensaje calls per behaviour
MaxTime == 8000                      \* the clock stops advancing here (ms)
AdvanceSteps == {1000}               \* amounts of time that pass between handlers
TextLens == {0, 30, 3999, 4001}      \* lengths of the texts handed to encolarMensaje
RetryAfterValues == {2}              \* retry_after hints of a 429 (seconds)
InitTokens == {1, 20}                \* bucket levels (tokens) left by earlier traffic
MaxTickLate == 1000                  \* the drain timer runs at most this late (ms)
MaxConnEvents == 4                   \* socket events followed per behaviour
MaxEventos == 3                      \* liquidations recorded per behaviour of the statistics
MaxStatTime == 4500000               \* the clock of the statistics stops here (ms): 75 min
StatSteps == {900000}                \* amounts of time that pass between statistics handlers
MaxCalls == 4                        \* encolarMensaje calls counted in lastCall
MaxQueued == 6                       \* texts in the queue when the drain on a full queue starts
PackLens == {30, 1500, 4001}         \* lengths of those texts
DrainSlack == 3000                   \* time that lets the drain refill and send the whole queue (ms)
MaxHuobiTime == 3600000              \* the clock of the Huobi variant stops here (ms): 1 h
HuobiSteps == {1800000}              \* amounts of time that pass between Huobi handlers
MaxCola == 1                         \* liquidation frames are taken while cola is shorter
MaxPongs == 1                        \* ping frames answered per Huobi socket
FixedStart == 1000                   \* part_002: Date.now() at the load
MaxFixedTime == 3000                 \* part_002: the clock stops here (ms)
MaxFixedMsgs == 2                    \* part_002: enviarATelegram calls per behaviour
FixedLens == {0, 30, 3980, 3995}     \* part_002: lengths of the texts enqueued
MaxLatency == 250                    \* part_002: the transport answers within this time (ms)
Max429 == 1                          \* part_002: retries set per behaviour

\* ------------------------------------------------------- program constants
TOKEN_UNIT == 10000                  \* fixed-point units per token
TOKEN_CAP == 20 * TOKEN_UNIT
REFILL_RATE == 3                     \* units per ms: 0.3 token per second
AGRUPA_TAMANIO == 5
MAX_TG_LENGTH == 4000
DRAIN_INTERVAL == 250
MAX_RETRIES == 3
MAX_EVENT_AGE == 3600000
COLA_BLOQUE == 20            \* part_000: texts taken by one run of the sender
REFRESH_MS == 3600000        \* part_000: period of the pair-list refresh
MIN_INTERVAL_MS == 1000      \* part_002
FIXED_INTERVAL == 250        \* part_002: period of the drain timer

VARIABLES
  now,              \* Date.now()
  availableTokens,  \* the bucket, in units
  lastRefill,       \* time of the last refillTokens()
  messageQueue,     \* sequence of {text, timestamp}
  nextId,           \* identity of the next accepted message
  inflight,         \* sendToTelegram calls awaiting the transport's answer; sends is
                    \* history: the transport calls made so far for that payload
  retryTimers,      \* pending setTimeout(() => sendToTelegram(text, retryCount + 1), wait)
  payloads,         \* history: the messages of each payload, in the order of the first sends
  dropped,          \* history: the payloads given up after the last retry
  alive,            \* FALSE once an unhandled rejection has ended the process
  sockets,          \* per exchange, the WebSockets made by connectOKX / connectBinance
                    \* in the order of their creation, each with the locals of its call
  reconnectTimers,  \* pending setTimeout(connectOKX | connectBinance, delay)
  connected,        \* okxConnected and binanceConnected
  lastDelay,        \* history, per exchange: the reconnect delay set last since the
                    \* last open event (0: none)
  failRun,          \* history, per exchange: close and error events since the last open
  eventos,          \* the liquidations of the statistics, {ts, tipo}
  lastCall,         \* history: number of encolarMensaje calls and length of the last text
  lastTexto,        \* history: the fields and the notional of the liquidation text built last
  recorded,         \* history: every event handed to addEvento, {ts, tipo}
  stats5mAt,        \* time of the last run of enviarEstadisticas5m (0: the load)
  statsLargasAt,    \* time of the last run of enviarEstadisticasLargas (0: the load)
  cola,             \* part_000: the texts waiting for the one-second sender
  huobiWs,          \* part_000: the WebSockets made by conectarHuobi, in the order of
                    \* their creation, each with the pares of its call
  cerrarHuobi,      \* part_000: the socket that cerrarHuobi() closes (0: none yet)
  huobiRefresh,     \* part_000: initHuobi still to run, time of the last hourly refresh
  lastSentTime,     \* part_002: Date.now() after the last send awaited by a drain
  cycles,           \* part_002: the invocations of the drain callback that are awaiting
  transportCalls,   \* part_002, history: the sendToTelegram calls, {at, ids, len, drain}
  drainAt           \* part_002: time of the last run of the drain callback

statVars == <<recorded, stats5mAt, statsLargasAt>>
huobiVars == <<cola, huobiWs, cerrarHuobi, huobiRefresh>>
fixedVars == <<lastSentTime, cycles, transportCalls, drainAt>>
auxVars == <<lastTexto, statVars, huobiVars, fixedVars>>

connVars == <<sockets, reconnectTimers, connected, lastDelay, failRun, eventos>>

vars == <<now, availableTokens, lastRefill, messageQueue, nextId, inflight,
          retryTimers, payloads, dropped, alive, sockets, reconnectTimers,
          connected, lastDelay, failRun, eventos, lastCall, auxVars>>

Min(a, b) == IF a < b THEN a ELSE b
Max(a, b) == IF a > b THEN a ELSE b

RECURSIVE Pow2(_)
Pow2(n) == IF n = 0 THEN 1 ELSE 2 * Pow2(n - 1)

RECURSIVE SumLen(_)
SumLen(s) == IF s = <<>> THEN 0 ELSE Head(s) + SumLen(Tail(s))

\* ---------------------------------------------------------------- helpers

\* formatHora(ts).length: `[${h}:${m}:${s} GMT-3]`, each field padded to 2
formatHoraLen == 1 + 2 + 1 + 2 + 1 + 2 + 7

\* refillTokens without the Math.min clamp
refillTokensUncapped(tokens, elapsed) == tokens + elapsed * REFILL_RATE

\* Math.min(TOKEN_CAP, availableTokens + elapsed * REFILL_RATE)
refillTokens(tokens, elapsed) == Min(TOKEN_CAP, tokens + elapsed * REFILL_RATE)

\* The inner loop shifting the head before the length test: the message that
\* does not fit is lost
RECURSIVE PackLosesNext(_, _, _)
PackLosesNext(q, charCount, loteItems) ==
  IF q = <<>> THEN [lote |-> loteItems, rest |-> q]
  ELSE LET next == Head(q) IN
       IF charCount + next.len + 1 > MAX_TG_LENGTH
       THEN [lote |-> loteItems, rest |-> Tail(q)]
       ELSE LET items == Append(loteItems, next) IN
            IF Len(items) >= AGRUPA_TAMANIO
            THEN [lote |-> items, rest |-> Tail(q)]
            ELSE PackLosesNext(Tail(q), charCount + next.len + 1, items)

\* The inner loop taking from the tail of the queue (pop for shift)
RECURSIVE PackLifo(_, _, _)
PackLifo(q, charCount, loteItems) ==
  IF q = <<>> THEN [lote |-> loteItems, rest |-> q]
  ELSE LET next == q[Len(q)]
           front == SubSeq(q, 1, Len(q) - 1) IN
       IF charCount + next.len + 1 > MAX_TG_LENGTH
       THEN [lote |-> loteItems, rest |-> q]
       ELSE LET items == Append(loteItems, next) IN
            IF Len(items) >= AGRUPA_TAMANIO
            THEN [lote |-> items, rest |-> front]
            ELSE PackLifo(front, charCount + next.len + 1, items)

\* The inner loop without its break at AGRUPA_TAMANIO items
RECURSIVE PackSinTope(_, _, _)
PackSinTope(q, charCount, loteItems) ==
  IF q = <<>> THEN [lote |-> loteItems, rest |-> q]
  ELSE LET next == Head(q) IN
       IF charCount + next.len + 1 > MAX_TG_LENGTH
       THEN [lote |-> loteItems, rest |-> q]
       ELSE PackSinTope(Tail(q), charCount + next.len + 1, Append(loteItems, next))

\* The inner while loop: packs the head of the queue into loteItems.
RECURSIVE Pack(_, _, _)
Pack(q, charCount, loteItems) ==
  IF q = <<>> THEN [lote |-> loteItems, rest |-> q]
  ELSE LET next == Head(q) IN
       IF charCount + next.len + 1 > MAX_TG_LENGTH
       THEN [lote |-> loteItems, rest |-> q]
       ELSE LET items == Append(loteItems, next) IN
            IF Len(items) >= AGRUPA_TAMANIO
            THEN [lote |-> items, rest |-> Tail(q)]
            ELSE Pack(Tail(q), charCount + next.len + 1, items)

\* The payload with its lines in reverse order
BuildPayloadReversed(loteItems) ==
  LET n == Len(loteItems)
      lines == [i \in 1..n |-> formatHoraLen + 1 + loteItems[i].len]
      body == SumLen(lines) + (n - 1)
  IN [items |-> [i \in 1..n |-> loteItems[n + 1 - i].id],
      count |-> n,
      length |-> formatHoraLen + 13 + 1 + 16 + 1 + body]

\* `${encabezado} *Resumen de ${n} liquidaciones:*\n${body}` as a payload:
\* the messages it carries, the count its header states, and its length.
BuildPayload(loteItems) ==
  LET n == Len(loteItems)
      lines == [i \in 1..n |-> formatHoraLen + 1 + loteItems[i].len]
      body == SumLen(lines) + (n - 1)
  IN [items |-> [i \in 1..n |-> loteItems[i].id],
      count |-> n,
      length |-> formatHoraLen + 13 + 1 + 16 + 1 + body]

\* Math.min for Math.max
RetryWaitMin(hint, retryCount) ==
  Min(IF hint.present THEN hint.value * 1000 ELSE 0, Pow2(retryCount) * 1000)

\* Math.max(retry_after * 1000 || 0, Math.pow(2, retryCount) * 1000)
RetryWait(hint, retryCount) ==
  Max(IF hint.present THEN hint.value * 1000 ELSE 0, Pow2(retryCount) * 1000)

NoHint == [present |-> FALSE, value |-> 0]

RetryAfterOpts == {NoHint} \cup {[present |-> TRUE, value |-> v] : v \in RetryAfterValues}

\* The 429 branch retrying with the retry count unchanged
RetryOn429SameCount(c, r, t) ==
  IF r.kind = "429" /\ c.retryCount < MAX_RETRIES
  THEN {[text |-> c.text, retryCount |-> c.retryCount,
         due |-> t + RetryWait(r.hint, c.retryCount),
         sends |-> c.sends]}
  ELSE {}

\* The 429 branch with retryCount <= 3 for retryCount < 3
RetryOn429OneMore(c, r, t) ==
  IF r.kind = "429" /\ c.retryCount <= MAX_RETRIES
  THEN {[text |-> c.text, retryCount |-> c.retryCount + 1,
         due |-> t + RetryWait(r.hint, c.retryCount),
         sends |-> c.sends]}
  ELSE {}

\* The 429 branch taken for every answer that is not ok
RetryOnAnyFailure(c, r, t) ==
  IF r.kind # "ok" /\ c.retryCount < MAX_RETRIES
  THEN {[text |-> c.text, retryCount |-> c.retryCount + 1,
         due |-> t + RetryWait(r.hint, c.retryCount),
         sends |-> c.sends]}
  ELSE {}

\* The 429 branch of sendToTelegram: the timers it sets at time t for call c
\* answered r.
RetryOn429(c, r, t) ==
  IF r.kind = "429" /\ c.retryCount < MAX_RETRIES
  THEN {[text |-> c.text, retryCount |-> c.retryCount + 1,
         due |-> t + RetryWait(r.hint, c.retryCount),
         sends |-> c.sends]}
  ELSE {}

\* The loop condition with availableTokens > 0 for availableTokens >= 1
LoopConditionAnyToken(tokens, q) == tokens > 0 /\ Len(q) > 0

\* while (availableTokens >= 1 && messageQueue.length)
LoopCondition(tokens, q) == tokens >= TOKEN_UNIT /\ Len(q) > 0

Responses ==
  {[kind |-> "ok", hint |-> NoHint], [kind |-> "error", hint |-> NoHint]} \cup
  {[kind |-> "429", hint |-> h] : h \in RetryAfterOpts}

\* ------------------------------------------------------------ connections
Exchanges == {"OKX", "Binance"}

\* const ws = new WebSocket(...); let pingInt, reconnectAttempts = 0;
\* state follows the events the socket has emitted; pingInt is TRUE while the
\* keep-alive interval is set; pinged is history: a ping was sent on it.
NewSocket ==
  [state |-> "connecting", pingInt |-> FALSE, reconnectAttempts |-> 0,
   pinged |-> FALSE]

\* text.length of the notifications of the open, close and error handlers
NotificationLen(ex, event) ==
  IF ex = "OKX"
  THEN CASE event = "open" -> 16      \* "(green circle) OKX conectado"
         [] event = "close" -> 19     \* "(plug) OKX desconectado"
         [] event = "error" -> 23     \* "(cross) Error en conexion OKX"
  ELSE CASE event = "open" -> 20      \* "(yellow circle) Binance conectado"
         [] event = "close" -> 23     \* "(plug) Binance desconectado"
         [] event = "error" -> 27     \* "(cross) Error en conexion Binance"

\* Math.pow(2, Math.min(5, reconnectAttempts)) * 1000
ReconnectDelay(reconnectAttempts) == Pow2(Min(5, reconnectAttempts)) * 1000

\* limpiarEventos with a limit of half an hour
RECURSIVE limpiarEventosCorto(_, _)
limpiarEventosCorto(evs, ahora) ==
  IF evs # <<>> /\ Head(evs).ts < ahora - 1800000
  THEN limpiarEventosCorto(Tail(evs), ahora)
  ELSE evs

\* limpiarEventos(): drop the events older than MAX_EVENT_AGE from the front
RECURSIVE limpiarEventos(_, _)
limpiarEventos(evs, ahora) ==
  IF evs # <<>> /\ Head(evs).ts < ahora - MAX_EVENT_AGE
  THEN limpiarEventos(Tail(evs), ahora)
  ELSE evs

\* addEvento(tipo)
addEvento(evs, tipo, ahora) ==
  limpiarEventos(Append(evs, [ts |-> ahora, tipo |-> tipo]), ahora)

\* -------------------------------------------------------------- statistics

\* The windows of the reports: 5, 15, 30 and 60 minutes
Horizons == {300000, 900000, 1800000, 3600000}

\* eventos.filter(e => e.ts >= ahora - windowMs)
Recientes(evs, ahora, windowMs) == SelectSeq(evs, LAMBDA e : e.ts >= ahora - windowMs)

CountTipo(evs, tipo) == Len(SelectSeq(evs, LAMBDA e : e.tipo = tipo))

\* ((part / total) * 100).toFixed(1), in tenths of a percent: the nearest
\* tenth, the larger one of two equally near
toFixed1(part, total) == (2000 * part + total) \div (2 * total)

\* whole percents, rounded down, for toFixed(1)
toFixedWhole(part, total) == ((100 * part) \div total) * 10

\* Number of characters of a count and of a percentage with one decimal
Digits(n) == IF n < 10 THEN 1 ELSE IF n < 100 THEN 2 ELSE 3
PctLen(tenths) == Digits(tenths \div 10) + 2

\* `${(windowMs / 60000).toFixed(1)} min`.length
LabelLen(windowMs) == Digits(windowMs \div 60000) + 2 + 4

NullResumen ==
  [null |-> TRUE, total |-> 0, buy |-> 0, sell |-> 0, pctBuy |-> 0, pctSell |-> 0,
   len |-> 0]

\* The line built from the counts of a window
Linea(total, buy, windowMs, pctBuy, pctSell) ==
  LET sell == total - buy
  IN  [null |-> FALSE, total |-> total, buy |-> buy, sell |-> sell,
       pctBuy |-> pctBuy, pctSell |-> pctSell,
       len |-> 3 + LabelLen(windowMs) + 11 + Digits(total) + 7 + Digits(buy) + 2
               + PctLen(pctBuy) + 10 + Digits(sell) + 2 + PctLen(pctSell) + 2]

\* resumenEstadisticas without its return null
resumenEstadisticasZero(evs, ahora, windowMs) ==
  LET recientes == Recientes(evs, ahora, windowMs)
      total == Len(recientes)
  IN  IF total = 0
      THEN [NullResumen EXCEPT !.null = FALSE, !.len = 60]
      ELSE LET buy == CountTipo(recientes, "buy")
           IN  Linea(total, buy, windowMs, toFixed1(buy, total), toFixed1(total - buy, total))

\* resumenEstadisticas with percentages in whole percents
resumenEstadisticasWhole(evs, ahora, windowMs) ==
  LET recientes == Recientes(evs, ahora, windowMs)
      total == Len(recientes)
  IN  IF total = 0
      THEN NullResumen
      ELSE LET buy == CountTipo(recientes, "buy")
           IN  Linea(total, buy, windowMs, toFixedWhole(buy, total), toFixedWhole(total - buy, total))

\* resumenEstadisticas(windowMs), at time ahora
resumenEstadisticas(evs, ahora, windowMs) ==
  LET recientes == Recientes(evs, ahora, windowMs)
      total == Len(recientes)
  IN  IF total = 0
      THEN NullResumen
      ELSE LET buy == CountTipo(recientes, "buy")
           IN  Linea(total, buy, windowMs, toFixed1(buy, total), toFixed1(total - buy, total))

\* [resumenEstadisticas(15 min), (30 min), (60 min)].filter(Boolean)
Partes(evs, ahora) ==
  SelectSeq([k \in 1..3 |->
               resumenEstadisticas(evs, ahora, <<900000, 1800000, 3600000>>[k])],
            LAMBDA r : ~r.null)

\* partes.join("\n").length
RECURSIVE JoinLen(_)
JoinLen(partes) ==
  IF partes = <<>> THEN 0
  ELSE IF Len(partes) = 1 THEN partes[1].len
  ELSE partes[1].len + 1 + JoinLen(Tail(partes))

\* ---------------------------------------------------- liquidation frames

\* A field of a decoded frame: absent (undefined or null), the empty string,
\* a string that is not a number, a string that is a number (v, in hundredths)
\* or a JSON number (v, in hundredths)
Absent == [t |-> "absent", v |-> 0]
EmptyStr == [t |-> "empty", v |-> 0]
TextStr == [t |-> "text", v |-> 0]
NumStr(v) == [t |-> "numstr", v |-> v]
JsonNum(v) == [t |-> "number", v |-> v]

\* JavaScript truthiness of a field: a non-empty string (also "0") or a
\* number other than 0
Truthy(f) == f.t \in {"text", "numstr"} \/ (f.t = "number" /\ f.v # 0)

\* Number(a || b || 0): NaN for a string that is not a number
NaN == [nan |-> TRUE, v |-> 0]
NumberOf(a, b) ==
  LET f == IF Truthy(a) THEN a ELSE IF Truthy(b) THEN b ELSE JsonNum(0)
  IN  IF f.t = "text" THEN NaN ELSE [nan |-> FALSE, v |-> f.v]

\* n as a condition: false for NaN and for 0
NumTruthy(n) == ~n.nan /\ n.v # 0

\* `$${(price * qty).toLocaleString()}`: price and qty in hundredths, so the
\* product is in ten-thousandths; toLocaleString() keeps at most three
\* decimals, rounding half away from zero.  milli is the number shown, in
\* thousandths.
Rendered(price, qty) ==
  IF price.nan \/ qty.nan
  THEN [kind |-> "NaN", milli |-> 0]
  ELSE [kind |-> "number", milli |-> (price.v * qty.v + 5) \div 10]

Sentinel == [kind |-> "sentinel", milli |-> 0]

\* usd with the test on the price alone
usdPriceOnly(price, qty) ==
  IF NumTruthy(price) THEN Rendered(price, qty) ELSE Sentinel

\* const usd = price && qty ? `$${(price * qty).toLocaleString()}` : "$-"
usd(price, qty) ==
  IF NumTruthy(price) /\ NumTruthy(qty) THEN Rendered(price, qty) ELSE Sentinel

\* An entry of msg.data (OKX) or the order msg.o (Binance): obj is FALSE for
\* null; px1, px2 are fillPx, bkPx (OKX) or p and nothing (Binance); sz1, sz2
\* are sz, accFillSz (OKX) or q and nothing (Binance); side is d.side or o.S
Entry(side, px1, px2, sz1, sz2) ==
  [obj |-> TRUE, side |-> side, px1 |-> px1, px2 |-> px2, sz1 |-> sz1, sz2 |-> sz2]
NullEntry ==
  [obj |-> FALSE, side |-> "absent", px1 |-> Absent, px2 |-> Absent,
   sz1 |-> Absent, sz2 |-> Absent]

PriceOf(d) == NumberOf(d.px1, d.px2)
QtyOf(d) == NumberOf(d.sz1, d.sz2)

\* const tipo = d.side === "buy" ? "buy" : "sell"              (OKX)
\* const tipo = msg.o.S.toUpperCase() === "BUY" ? "buy" : "sell"  (Binance)
TipoOf(ex, d) ==
  IF ex = "OKX"
  THEN IF d.side = "buy" THEN "buy" ELSE "sell"
  ELSE IF d.side \in {"buy", "BUY"} THEN "buy" ELSE "sell"

\* The entry makes the handler throw: d.fillPx of null (OKX), o.S.toUpperCase
\* of an order without S (Binance)
Throws(ex, d) ==
  IF ex = "OKX" THEN ~d.obj ELSE (~d.obj \/ d.side = "absent")

\* text.length of the liquidation text, for an instrument name of 13 characters
TextoLen(tipo) == IF tipo = "buy" THEN 58 ELSE 59

\* A frame: json is FALSE when JSON.parse throws; shape is FALSE when the
\* test of the channel and of Array.isArray(msg.data) (OKX) or of msg.e and
\* msg.o (Binance) fails; data is msg.data, or <<msg.o>>
Frame(json, shape, data) == [json |-> json, shape |-> shape, data |-> data]

\* The entries the handler works off before the frame ends or an entry throws
RECURSIVE Processed(_, _)
Processed(ex, data) ==
  IF data = <<>> \/ Throws(ex, Head(data))
  THEN <<>>
  ELSE <<Head(data)>> \o Processed(ex, Tail(data))

ProcessedOf(ex, frame) ==
  IF frame.json /\ frame.shape THEN Processed(ex, frame.data) ELSE <<>>

RECURSIVE addEventos(_, _, _, _)
addEventos(evs, ex, ds, ahora) ==
  IF ds = <<>> THEN evs
  ELSE addEventos(addEvento(evs, TipoOf(ex, Head(ds)), ahora), ex, Tail(ds), ahora)

NoTexto == [ex |-> "none", d |-> NullEntry, usd |-> Sentinel]
TextoOf(ex, d) == [ex |-> ex, d |-> d, usd |-> usd(PriceOf(d), QtyOf(d))]

BuyEntry == Entry("buy", NumStr(250), Absent, NumStr(200), Absent)
SellEntry == Entry("sell", NumStr(250), Absent, NumStr(200), Absent)

\* Frames a socket delivers while the connections come and go: one
\* liquidation of either side, or text that is not JSON
Frames ==
  {Frame(FALSE, FALSE, <<>>),
   Frame(TRUE, TRUE, <<BuyEntry>>),
   Frame(TRUE, TRUE, <<SellEntry>>)}

\* ------------------------------------------------------------------- Init
Init ==
  /\ now = 0
  /\ availableTokens \in {t * TOKEN_UNIT : t \in InitTokens}
  /\ lastRefill = 0
  /\ messageQueue = <<>>
  /\ nextId = 1
  /\ inflight = {}
  /\ retryTimers = {}
  /\ payloads = <<>>
  /\ dropped = {}
  /\ alive = TRUE
  /\ sockets = [ex \in Exchanges |-> <<NewSocket>>]
  /\ reconnectTimers = {}
  /\ connected = [ex \in Exchanges |-> FALSE]
  /\ lastDelay = [ex \in Exchanges |-> 0]
  /\ failRun = [ex \in Exchanges |-> 0]
  /\ eventos = <<>>
  /\ lastCall = [n |-> 0, len |-> 0]
  /\ lastTexto = NoTexto
  /\ recorded = <<>>
  /\ stats5mAt = 0
  /\ statsLargasAt = 0
  /\ cola = <<>>
  /\ huobiWs = <<>>
  /\ cerrarHuobi = 0
  /\ huobiRefresh = [init |-> TRUE, at |-> 0]
  /\ lastSentTime = 0
  /\ cycles = {}
  /\ transportCalls = <<>>
  /\ drainAt = 0

\* ---------------------------------------------------------------- actions

\* Time passes; timers fire at or after their due time, never before, and
\* the drain timer at most MaxTickLate after its last run.
Advance(d) ==
  /\ alive
  /\ now + d <= MaxTime
  /\ now + d - lastRefill <= MaxTickLate
  /\ now' = now + d
  /\ UNCHANGED <<availableTokens, lastRefill, messageQueue, nextId, inflight,
                 retryTimers, payloads, dropped, alive, connVars, lastCall, auxVars>>

\* messageQueue.unshift for messageQueue.push
encolarMensajeUnshift(len) ==
  /\ alive
  /\ IF len > 0
     THEN /\ messageQueue' = <<[id |-> nextId, len |-> len]>> \o messageQueue
          /\ nextId' = nextId + 1
     ELSE UNCHANGED <<messageQueue, nextId>>
  /\ UNCHANGED <<now, availableTokens, lastRefill, inflight, retryTimers,
                 payloads, dropped, alive>>

\* encolarMensaje(text, timestamp) with text.length = len
encolarMensaje(len) ==
  /\ alive
  /\ IF len > 0
     THEN /\ messageQueue' = Append(messageQueue, [id |-> nextId, len |-> len])
          /\ nextId' = nextId + 1
     ELSE UNCHANGED <<messageQueue, nextId>>
  /\ UNCHANGED <<now, availableTokens, lastRefill, inflight, retryTimers,
                 payloads, dropped, alive>>

\* The outer while loop of the drain callback, from its condition up to the
\* first await, the exit of the loop or the TypeError of loteItems[0] on an
\* empty lot.  tokens and base are the bucket and the calls in flight when
\* the loop is (re)entered.
DrainLoop(tokens, base) ==
  IF LoopCondition(tokens, messageQueue)
  THEN LET p == Pack(messageQueue, 0, <<>>) IN
       IF p.lote = <<>>
       THEN /\ availableTokens' = tokens
            /\ inflight' = base
            /\ alive' \in BOOLEAN
            /\ UNCHANGED <<messageQueue, payloads>>
       ELSE LET text == BuildPayload(p.lote) IN
            /\ availableTokens' = tokens
            /\ messageQueue' = p.rest
            /\ inflight' = base \cup {[text |-> text, retryCount |-> 0, sends |-> 1]}
            /\ payloads' = Append(payloads, text.items)
            /\ UNCHANGED alive
  ELSE /\ availableTokens' = tokens
       /\ inflight' = base
       /\ UNCHANGED <<messageQueue, payloads, alive>>

\* A tick of setInterval(async () => {...}, 250)
DrainTick ==
  /\ alive
  /\ now >= lastRefill + DRAIN_INTERVAL
  /\ lastRefill' = now
  /\ DrainLoop(refillTokens(availableTokens, now - lastRefill), inflight)
  /\ UNCHANGED <<now, nextId, retryTimers, dropped, connVars, lastCall, auxVars>>

\* The transport answers call c with r; sendToTelegram handles the answer
\* and, for a call the drain awaits, the drain resumes after its await.
Respond(c, r) ==
  /\ alive
  /\ c \in inflight
  /\ dropped' = IF r.kind = "429" /\ c.retryCount >= MAX_RETRIES
                THEN dropped \cup {c.text.items} ELSE dropped
  /\ retryTimers' = retryTimers \cup RetryOn429(c, r, now)
  /\ IF c.retryCount = 0
     THEN DrainLoop(availableTokens - TOKEN_UNIT, inflight \ {c})
     ELSE /\ inflight' = inflight \ {c}
          /\ UNCHANGED <<availableTokens, messageQueue, payloads, alive>>
  /\ UNCHANGED <<now, lastRefill, nextId, connVars, lastCall, auxVars>>

\* A retry timer fires: sendToTelegram(text, retryCount + 1)
RetryFire(t) ==
  /\ alive
  /\ t \in retryTimers
  /\ now >= t.due
  /\ retryTimers' = retryTimers \ {t}
  /\ inflight' = inflight \cup {[text |-> t.text, retryCount |-> t.retryCount,
                              sends |-> t.sends + 1]}
  /\ UNCHANGED <<now, availableTokens, lastRefill, messageQueue, nextId,
                 payloads, dropped, alive, connVars, lastCall, auxVars>>

\* A producer of the program calls encolarMensaje
Producer(len) ==
  /\ nextId <= MaxMsgs
  /\ encolarMensaje(len)
  /\ UNCHANGED <<connVars, lastCall, auxVars>>

Next ==
  \/ \E d \in AdvanceSteps : Advance(d)
  \/ \E len \in TextLens : Producer(len)
  \/ DrainTick
  \/ \E c \in inflight : \E r \in Responses : Respond(c, r)
  \/ \E t \in retryTimers : RetryFire(t)

Spec == Init /\ [][Next]_vars

\* The delivery with its timer firing, time passing and the transport
\* answering every call
SpecFair ==
  /\ Spec
  /\ WF_vars(DrainTick)
  /\ WF_vars(\E d \in AdvanceSteps : Advance(d))
  /\ WF_vars(\E c \in inflight : \E r \in Responses : Respond(c, r))

\* --------------------------------------------- the drain on a full queue

\* Queues of up to MaxQueued texts that encolarMensaje has built before a tick
RECURSIVE QueuesOf(_)
QueuesOf(n) ==
  IF n = 0 THEN {<<>>}
  ELSE LET shorter == QueuesOf(n - 1) IN
       shorter \cup {Append(q, [id |-> Len(q) + 1, len |-> len]) :
                       q \in {s \in shorter : Len(s) = n - 1}, len \in PackLens}

\* The delivery starting from a queue that was filled before the first tick
PackInit ==
  /\ now = 0
  /\ availableTokens \in {t * TOKEN_UNIT : t \in InitTokens}
  /\ lastRefill = 0
  /\ messageQueue \in QueuesOf(MaxQueued)
  /\ nextId = Len(messageQueue) + 1
  /\ inflight = {}
  /\ retryTimers = {}
  /\ payloads = <<>>
  /\ dropped = {}
  /\ alive = TRUE
  /\ sockets = [ex \in Exchanges |-> <<NewSocket>>]
  /\ reconnectTimers = {}
  /\ connected = [ex \in Exchanges |-> FALSE]
  /\ lastDelay = [ex \in Exchanges |-> 0]
  /\ failRun = [ex \in Exchanges |-> 0]
  /\ eventos = <<>>
  /\ lastCall = [n |-> 0, len |-> 0]
  /\ lastTexto = NoTexto
  /\ recorded = <<>>
  /\ stats5mAt = 0
  /\ statsLargasAt = 0
  /\ cola = <<>>
  /\ huobiWs = <<>>
  /\ cerrarHuobi = 0
  /\ huobiRefresh = [init |-> TRUE, at |-> 0]
  /\ lastSentTime = 0
  /\ cycles = {}
  /\ transportCalls = <<>>
  /\ drainAt = 0

\* Here the transport answers ok or with an error, never 429: no retries
PackResponses == {r \in Responses : r.kind # "429"}

PackNext ==
  \/ \E d \in AdvanceSteps : Advance(d)
  \/ \E len \in PackLens : Producer(len)
  \/ DrainTick
  \/ \E c \in inflight : \E r \in PackResponses : Respond(c, r)

SpecPack == PackInit /\ [][PackNext]_vars

\* ------------------------------------------ a transport that only fails

\* The answers that are not ok: an error answer or an exception of fetch, and
\* 429 without retry_after
FailResponses == {r \in Responses : r.kind # "ok" /\ ~r.hint.present}

FailNext ==
  \/ \E d \in AdvanceSteps : Advance(d)
  \/ \E len \in TextLens : Producer(len)
  \/ DrainTick
  \/ \E c \in inflight : \E r \in FailResponses : Respond(c, r)
  \/ \E t \in retryTimers : RetryFire(t)

SpecFailing == Init /\ [][FailNext]_vars

\* ------------------------------------------------ encolarMensaje alone

\* A call of encolarMensaje, by any caller; lastCall keeps the call
EncolarCall(len) ==
  /\ lastCall.n < MaxCalls
  /\ encolarMensaje(len)
  /\ lastCall' = [n |-> lastCall.n + 1, len |-> len]
  /\ UNCHANGED <<connVars, auxVars>>

EnqueueNext == \E len \in TextLens : EncolarCall(len)

SpecEnqueue == Init /\ [][EnqueueNext]_vars

\* ------------------------------------------------- connection handlers

deliveryVars == <<now, availableTokens, lastRefill, messageQueue, nextId,
                  inflight, retryTimers, payloads, dropped, alive>>

TimersOf(ex) == {t \in reconnectTimers : t.ex = ex}

\* sendToTelegram("...") for encolarMensaje("...")
NotifyDirect(ex, event) ==
  /\ alive
  /\ inflight' = inflight \cup
       {[text |-> [items |-> <<nextId>>, count |-> 1,
                   length |-> NotificationLen(ex, event)],
         retryCount |-> 0, sends |-> 1]}
  /\ nextId' = nextId + 1
  /\ UNCHANGED <<now, availableTokens, lastRefill, messageQueue, retryTimers,
                 payloads, dropped, alive>>

\* The handlers announce a connection event with encolarMensaje("...")
Notify(ex, event) == encolarMensaje(NotificationLen(ex, event))

\* restart without clearInterval(pingInt)
restartKeepsPing(ex, i, state) ==
  LET s == sockets[ex][i]
      delay == ReconnectDelay(s.reconnectAttempts)
  IN  /\ sockets' = [sockets EXCEPT ![ex][i] =
                       [state |-> state, pingInt |-> s.pingInt,
                        reconnectAttempts |-> s.reconnectAttempts + 1,
                        pinged |-> s.pinged]]
      /\ connected' = [connected EXCEPT ![ex] = FALSE]
      /\ reconnectTimers' = reconnectTimers \cup {[ex |-> ex, by |-> i, delay |-> delay]}
      /\ lastDelay' = [lastDelay EXCEPT ![ex] = delay]
      /\ failRun' = [failRun EXCEPT ![ex] = @ + 1]

\* restart of one exchange that writes the flag of the other exchange
restartOtherFlag(ex, i, state) ==
  LET s == sockets[ex][i]
      delay == ReconnectDelay(s.reconnectAttempts)
  IN  /\ sockets' = [sockets EXCEPT ![ex][i] =
                       [state |-> state, pingInt |-> FALSE,
                        reconnectAttempts |-> s.reconnectAttempts + 1,
                        pinged |-> s.pinged]]
      /\ connected' = [x \in Exchanges |-> IF x = ex THEN connected[x] ELSE FALSE]
      /\ reconnectTimers' = reconnectTimers \cup {[ex |-> ex, by |-> i, delay |-> delay]}
      /\ lastDelay' = [lastDelay EXCEPT ![ex] = delay]
      /\ failRun' = [failRun EXCEPT ![ex] = @ + 1]

\* restart that schedules a reconnect for the first failure of a socket only
restartGivesUp(ex, i, state) ==
  LET s == sockets[ex][i]
      delay == ReconnectDelay(s.reconnectAttempts)
  IN  /\ sockets' = [sockets EXCEPT ![ex][i] =
                       [state |-> state, pingInt |-> FALSE,
                        reconnectAttempts |-> s.reconnectAttempts + 1,
                        pinged |-> s.pinged]]
      /\ connected' = [connected EXCEPT ![ex] = FALSE]
      /\ reconnectTimers' =
           IF s.reconnectAttempts = 0
           THEN reconnectTimers \cup {[ex |-> ex, by |-> i, delay |-> delay]}
           ELSE reconnectTimers
      /\ lastDelay' = [lastDelay EXCEPT ![ex] = delay]
      /\ failRun' = [failRun EXCEPT ![ex] = @ + 1]

\* const restart = () => { clearInterval(pingInt); okxConnected = false;
\*   setTimeout(connectOKX, Math.pow(2, Math.min(5, reconnectAttempts++)) * 1000); }
\* run in the closure of socket i of exchange ex, whose event leaves it in state
restart(ex, i, state) ==
  LET s == sockets[ex][i]
      delay == ReconnectDelay(s.reconnectAttempts)
  IN  /\ sockets' = [sockets EXCEPT ![ex][i] =
                       [state |-> state, pingInt |-> FALSE,
                        reconnectAttempts |-> s.reconnectAttempts + 1,
                        pinged |-> s.pinged]]
      /\ connected' = [connected EXCEPT ![ex] = FALSE]
      /\ reconnectTimers' = reconnectTimers \cup {[ex |-> ex, by |-> i, delay |-> delay]}
      /\ lastDelay' = [lastDelay EXCEPT ![ex] = delay]
      /\ failRun' = [failRun EXCEPT ![ex] = @ + 1]

\* The model follows MaxConnEvents socket events that enqueue a text
WithinEvents == nextId <= MaxConnEvents

\* ws.on("open", ...)
OpenEvent(ex, i) ==
  /\ i \in DOMAIN sockets[ex]
  /\ sockets[ex][i].state = "connecting"
  /\ WithinEvents
  /\ connected' = [connected EXCEPT ![ex] = TRUE]
  /\ Notify(ex, "open")
  /\ sockets' = [sockets EXCEPT ![ex][i] =
                   [state |-> "open", pingInt |-> TRUE,
                    reconnectAttempts |-> sockets[ex][i].reconnectAttempts,
                    pinged |-> sockets[ex][i].pinged]]
  /\ lastDelay' = [lastDelay EXCEPT ![ex] = 0]
  /\ failRun' = [failRun EXCEPT ![ex] = 0]
  /\ UNCHANGED <<reconnectTimers, eventos, lastCall, auxVars>>

\* ws.on("error", ...): the socket fails while connecting or when open;
\* its close event is still to come
ErrorEvent(ex, i) ==
  /\ i \in DOMAIN sockets[ex]
  /\ sockets[ex][i].state \in {"connecting", "open"}
  /\ WithinEvents
  /\ Notify(ex, "error")
  /\ restart(ex, i, "errored")
  /\ UNCHANGED <<eventos, lastCall, auxVars>>

\* ws.on("close", ...): the last event of a socket, with or without an error
\* event before it
CloseEvent(ex, i) ==
  /\ i \in DOMAIN sockets[ex]
  /\ sockets[ex][i].state \in {"connecting", "open", "errored"}
  /\ WithinEvents
  /\ Notify(ex, "close")
  /\ restart(ex, i, "closed")
  /\ UNCHANGED <<eventos, lastCall, auxVars>>

\* The keep-alive interval of socket i fires: ws.send(ping) / ws.ping()
Ping(ex, i) ==
  /\ alive
  /\ i \in DOMAIN sockets[ex]
  /\ sockets[ex][i].pingInt
  /\ sockets' = [sockets EXCEPT ![ex][i].pinged = TRUE]
  /\ UNCHANGED <<deliveryVars, reconnectTimers, connected, lastDelay, failRun,
                 eventos, lastCall, auxVars>>

\* A reconnect timer fires: connectOKX() / connectBinance()
ReconnectFire(t) ==
  /\ alive
  /\ t \in reconnectTimers
  /\ reconnectTimers' = reconnectTimers \ {t}
  /\ sockets' = [sockets EXCEPT ![t.ex] = Append(@, NewSocket)]
  /\ UNCHANGED <<deliveryVars, connected, lastDelay, failRun, eventos, lastCall, auxVars>>

\* ws.on("message", ...) of an open socket: try { ... forEach(addEvento,
\* logYEncolar) ... } catch (e) { console.error(...) }
Message(ex, i, frame) ==
  LET ds == ProcessedOf(ex, frame)
      n == Len(ds)
  IN  /\ alive
      /\ i \in DOMAIN sockets[ex]
      /\ sockets[ex][i].state = "open"
      /\ eventos' = addEventos(eventos, ex, ds, now)
      /\ recorded' = recorded \o [k \in 1..n |-> [ts |-> now, tipo |-> TipoOf(ex, ds[k])]]
      /\ messageQueue' = messageQueue \o
           [k \in 1..n |-> [id |-> nextId + k - 1, len |-> TextoLen(TipoOf(ex, ds[k]))]]
      /\ nextId' = nextId + n
      /\ lastTexto' = IF n = 0 THEN lastTexto ELSE TextoOf(ex, ds[n])
      /\ UNCHANGED <<now, availableTokens, lastRefill, inflight, retryTimers,
                     payloads, dropped, alive>>
      /\ UNCHANGED <<sockets, reconnectTimers, connected, lastDelay, failRun,
                     lastCall, stats5mAt, statsLargasAt, huobiVars, fixedVars>>

\* The model follows the frames whose entries fit in MaxConnEvents texts
WithinFrame(frame) == nextId + Len(frame.data) <= MaxConnEvents + 1

ConnInit ==
  /\ Init
  /\ availableTokens = TOKEN_CAP

ConnNext ==
  \/ \E ex \in Exchanges : \E i \in DOMAIN sockets[ex] :
       \/ OpenEvent(ex, i)
       \/ ErrorEvent(ex, i)
       \/ CloseEvent(ex, i)
       \/ Ping(ex, i)
       \/ \E frame \in Frames : WithinFrame(frame) /\ Message(ex, i, frame)
  \/ \E t \in reconnectTimers : ReconnectFire(t)

SpecConn == ConnInit /\ [][ConnNext]_vars

\* Timers fire: a pending reconnect timer runs its callback
SpecConnFair ==
  SpecConn /\ WF_vars(\E t \in reconnectTimers : ReconnectFire(t))

\* ------------------------------------------------------ statistics timers

\* setInterval(enviarEstadisticas5m, 150000): a run of enviarEstadisticas5m
enviarEstadisticas5m ==
  LET linea == resumenEstadisticas(eventos, now, 300000) IN
  /\ now >= stats5mAt + 150000
  /\ stats5mAt' = now
  /\ IF ~linea.null
     THEN encolarMensaje(31 + linea.len)
     ELSE alive /\ UNCHANGED deliveryVars
  /\ UNCHANGED <<connVars, lastCall, lastTexto, recorded, statsLargasAt, huobiVars,
                 fixedVars>>

\* setInterval(enviarEstadisticasLargas, 300000): a run of
\* enviarEstadisticasLargas; of two timers due, the one set first runs first
enviarEstadisticasLargas ==
  LET partes == Partes(eventos, now) IN
  /\ now >= statsLargasAt + 300000
  /\ now < stats5mAt + 150000
  /\ statsLargasAt' = now
  /\ IF partes # <<>>
     THEN encolarMensaje(38 + JoinLen(partes))
     ELSE alive /\ UNCHANGED deliveryVars
  /\ UNCHANGED <<connVars, lastCall, lastTexto, recorded, stats5mAt, huobiVars,
                 fixedVars>>

\* No statistics timer is due: a timer that is due runs before the clock
\* moves on
TimersRan == now < stats5mAt + 150000 /\ now < statsLargasAt + 300000

\* Time passes between the handlers of the statistics
StatElapse(d) ==
  /\ alive
  /\ now + d <= MaxStatTime
  /\ TimersRan
  /\ now' = now + d
  /\ UNCHANGED <<availableTokens, lastRefill, messageQueue, nextId, inflight,
                 retryTimers, payloads, dropped, alive, connVars, lastCall, auxVars>>

\* Both connections are up, their notifications have been sent
OpenSocket ==
  [state |-> "open", pingInt |-> TRUE, reconnectAttempts |-> 0, pinged |-> FALSE]

StatsInit ==
  /\ now = 0
  /\ availableTokens = TOKEN_CAP
  /\ lastRefill = 0
  /\ messageQueue = <<>>
  /\ nextId = 3
  /\ inflight = {}
  /\ retryTimers = {}
  /\ payloads = << <<1, 2>> >>
  /\ dropped = {}
  /\ alive = TRUE
  /\ sockets = [ex \in Exchanges |-> <<OpenSocket>>]
  /\ reconnectTimers = {}
  /\ connected = [ex \in Exchanges |-> TRUE]
  /\ lastDelay = [ex \in Exchanges |-> 0]
  /\ failRun = [ex \in Exchanges |-> 0]
  /\ eventos = <<>>
  /\ lastCall = [n |-> 0, len |-> 0]
  /\ lastTexto = NoTexto
  /\ recorded = <<>>
  /\ stats5mAt = 0
  /\ statsLargasAt = 0
  /\ cola = <<>>
  /\ huobiWs = <<>>
  /\ cerrarHuobi = 0
  /\ huobiRefresh = [init |-> TRUE, at |-> 0]
  /\ lastSentTime = 0
  /\ cycles = {}
  /\ transportCalls = <<>>
  /\ drainAt = 0

StatsNext ==
  \/ \E d \in StatSteps : StatElapse(d)
  \/ \E ex \in Exchanges : \E frame \in Frames :
       Len(recorded) < MaxEventos /\ Message(ex, 1, frame)
  \/ enviarEstadisticas5m
  \/ enviarEstadisticasLargas

SpecStats == StatsInit /\ [][StatsNext]_vars

\* ------------------------------------------------------ frames received

\* Price fields (fillPx and bkPx, or p) and quantity fields (sz and
\* accFillSz, or q) of the entries received
PriceInputs ==
  {<<NumStr(250), Absent>>, <<Absent, NumStr(250)>>, <<Absent, Absent>>,
   <<EmptyStr, Absent>>, <<TextStr, NumStr(250)>>, <<NumStr(0), NumStr(250)>>,
   <<JsonNum(0), Absent>>, <<NumStr(2), Absent>>}
QtyInputs ==
  {<<NumStr(200), Absent>>, <<Absent, Absent>>, <<TextStr, Absent>>,
   <<NumStr(0), Absent>>, <<NumStr(2), Absent>>}
SideInputs == {"buy", "sell", "BUY", "absent"}

EntryInputs ==
  {Entry(side, px[1], px[2], sz[1], sz[2]) :
     side \in SideInputs, px \in PriceInputs, sz \in QtyInputs}

\* Text that is not JSON, JSON of another shape, frames of one entry, and
\* frames whose data array holds null
FrameInputs ==
  {Frame(FALSE, FALSE, <<>>), Frame(TRUE, FALSE, <<BuyEntry>>)}
    \cup {Frame(TRUE, TRUE, <<d>>) : d \in EntryInputs}
    \cup {Frame(TRUE, TRUE, ds) :
            ds \in {<<NullEntry>>, <<BuyEntry, NullEntry>>, <<NullEntry, SellEntry>>}}

FramesNext ==
  \E ex \in Exchanges : \E i \in DOMAIN sockets[ex] :
    \/ OpenEvent(ex, i)
    \/ \E frame \in FrameInputs : WithinFrame(frame) /\ Message(ex, i, frame)

SpecFrames == ConnInit /\ [][FramesNext]_vars

\* ------------------------------------------- the Huobi variant (part_000)

\* What obtenerParesHuobi resolves to: the -USDT contract codes without
\* duplicates, [] after a failed fetch
PairLists == {<<>>, <<"ETH-USDT">>, <<"BTC-USDT", "ETH-USDT">>}

\* `public.${par.replace('-', '')}.liquidation_orders`
HuobiTopic(par) ==
  CASE par = "BTC-USDT" -> "public.BTCUSDT.liquidation_orders"
    [] par = "ETH-USDT" -> "public.ETHUSDT.liquidation_orders"

\* `${par}-liq`
HuobiCid(par) ==
  CASE par = "BTC-USDT" -> "BTC-USDT-liq"
    [] par = "ETH-USDT" -> "ETH-USDT-liq"

\* A property that an object does not have reads as undefined
Undefined == "undefined"

\* A JSON object of the Huobi socket, by its properties
HuobiObj(ping, pong, op, ts, topic, cid, data) ==
  [ping |-> ping, pong |-> pong, op |-> op, ts |-> ts, topic |-> topic,
   cid |-> cid, data |-> data]

\* { op: 'sub', topic, cid }
SubFrame(par) ==
  HuobiObj(Undefined, Undefined, "sub", Undefined, HuobiTopic(par), HuobiCid(par),
           Undefined)

\* JSON.stringify({ pong: ts }): a property whose value is undefined is left out
PongFrame(ts) ==
  HuobiObj(Undefined, ts, Undefined, Undefined, Undefined, Undefined, Undefined)

\* The reply echoes the ping property of the frame
PongFrameOfPing(msg) == PongFrame(msg.ping)

\* const ts = JSON.parse(text).ts; ws.send(JSON.stringify({ pong: ts }))
PongReply(msg) == PongFrame(msg.ts)

\* text.includes('ping'): as the name of a property or as the value of op
IncludesPing(msg) == msg.ping # Undefined \/ msg.op = "ping"

\* msg.topic.match(/public\.(.+?)\.liquidation_orders/): null when the topic
\* is of another kind
TopicMatches(topic) == \E par \in {"BTC-USDT", "ETH-USDT"} : topic = HuobiTopic(par)

\* match(...)[1].toUpperCase()
ParOf(topic) ==
  CASE topic = "public.BTCUSDT.liquidation_orders" -> "BTCUSDT"
    [] topic = "public.ETHUSDT.liquidation_orders" -> "ETHUSDT"

\* The texts of part_000 by their fields
HuobiTexto(kind, par, side) == [kind |-> kind, par |-> par, side |-> side]

\* new WebSocket('wss://api.hbdm.com/linear-swap-ws') in conectarHuobi(pares);
\* sent: the frames the client has sent on it; since is history: the time of
\* the call
NewHuobiWs(pares, t) ==
  [state |-> "connecting", pares |-> pares, sent |-> <<>>, since |-> t]

\* ws.close(): an open socket starts the closing handshake, a connecting one
\* aborts its handshake (error, then close, are emitted), any other is left
wsClose(state) ==
  CASE state = "open" -> "closing"
    [] state = "connecting" -> "aborted"
    [] OTHER -> state

\* cerrarHuobi(): try { ws && ws.close() } on the socket of the last call
CerrarPrevia(wss, i) ==
  IF i = 0 THEN wss ELSE [wss EXCEPT ![i].state = wsClose(@)]

\* conectarHuobi without the call of cerrarHuobi()
conectarHuobiSinCerrar(pares) ==
  IF pares = <<>>
  THEN UNCHANGED <<huobiWs, cerrarHuobi>>
  ELSE /\ huobiWs' = Append(huobiWs, NewHuobiWs(pares, now))
       /\ cerrarHuobi' = Len(huobiWs) + 1

\* conectarHuobi closing the previous socket before it looks at the list
conectarHuobiCierraAntes(pares) ==
  IF pares = <<>>
  THEN /\ huobiWs' = CerrarPrevia(huobiWs, cerrarHuobi)
       /\ UNCHANGED cerrarHuobi
  ELSE /\ huobiWs' = Append(CerrarPrevia(huobiWs, cerrarHuobi), NewHuobiWs(pares, now))
       /\ cerrarHuobi' = Len(huobiWs) + 1

\* conectarHuobi(pares), lines 125-135: nothing for an empty list; else the
\* previous socket is closed and a new one is created
conectarHuobi(pares) ==
  IF pares = <<>>
  THEN UNCHANGED <<huobiWs, cerrarHuobi>>
  ELSE /\ huobiWs' = Append(CerrarPrevia(huobiWs, cerrarHuobi), NewHuobiWs(pares, now))
       /\ cerrarHuobi' = Len(huobiWs) + 1

\* What the handlers of part_000 never touch
notHuobi == <<availableTokens, lastRefill, messageQueue, nextId, inflight,
              retryTimers, payloads, dropped, connVars, lastCall, lastTexto,
              statVars, fixedVars>>

\* initHuobi, lines 172-176, from the moment obtenerParesHuobi has resolved
initHuobi(pares) ==
  /\ alive
  /\ huobiRefresh.init
  /\ huobiRefresh' = [huobiRefresh EXCEPT !.init = FALSE]
  /\ conectarHuobi(pares)
  /\ UNCHANGED <<now, alive, cola, notHuobi>>

\* The hourly callback, lines 178-182, from the moment obtenerParesHuobi has
\* resolved
HourlyRefresh(pares) ==
  /\ alive
  /\ ~huobiRefresh.init
  /\ now >= huobiRefresh.at + REFRESH_MS
  /\ huobiRefresh' = [huobiRefresh EXCEPT !.at = now]
  /\ conectarHuobi(pares)
  /\ UNCHANGED <<now, alive, cola, notHuobi>>

\* enviarATelegram(texto) of part_000: cola.push(texto)
enviarATelegram(texto) == cola' = Append(cola, texto)

\* ws.on('open'), lines 137-142: one subscription for each pair of the call
HuobiOpen(i) ==
  /\ alive
  /\ huobiWs[i].state = "connecting"
  /\ huobiWs' = [huobiWs EXCEPT
       ![i].state = "open",
       ![i].sent = @ \o [k \in 1..Len(huobiWs[i].pares) |->
                           SubFrame(huobiWs[i].pares[k])]]
  /\ UNCHANGED <<now, alive, cola, cerrarHuobi, huobiRefresh, notHuobi>>

\* ws.on('error'), line 168; the socket is closing, its close event follows
HuobiError(i) ==
  /\ alive
  /\ huobiWs[i].state \in {"connecting", "open", "aborted"}
  /\ huobiWs' = [huobiWs EXCEPT ![i].state = "closing"]
  /\ enviarATelegram(HuobiTexto("error", "", ""))
  /\ UNCHANGED <<now, alive, cerrarHuobi, huobiRefresh, notHuobi>>

\* ws.on('close'), line 167
HuobiClose(i) ==
  /\ alive
  /\ huobiWs[i].state \in {"open", "closing"}
  /\ huobiWs' = [huobiWs EXCEPT ![i].state = "closed"]
  /\ enviarATelegram(HuobiTexto("cerrado", "", ""))
  /\ UNCHANGED <<now, alive, cerrarHuobi, huobiRefresh, notHuobi>>

\* A frame of the server: binary that is gzip or not, or a string; text that
\* is JSON (msg) or not
HuobiFrame(gz, json, msg) == [gz |-> gz, json |-> json, msg |-> msg]

\* ws.on('message'), lines 144-165, on an open socket.  data is the order of
\* the frame by its direction.  JSON.parse of a text that is not JSON, and
\* match(...)[1] of a topic of another kind, throw out of the handler: the
\* uncaught exception ends the process.
HuobiMessage(i, frame) ==
  LET msg == frame.msg IN
  /\ alive
  /\ huobiWs[i].state = "open"
  /\ IF frame.gz = "garbage"
     THEN UNCHANGED <<alive, cola, huobiWs>>
     ELSE IF ~frame.json
     THEN alive' = FALSE /\ UNCHANGED <<cola, huobiWs>>
     ELSE IF IncludesPing(msg)
     THEN /\ huobiWs' = [huobiWs EXCEPT ![i].sent = Append(@, PongReply(msg))]
          /\ UNCHANGED <<alive, cola>>
     ELSE IF msg.topic = Undefined \/ msg.data = Undefined
     THEN UNCHANGED <<alive, cola, huobiWs>>
     ELSE IF ~TopicMatches(msg.topic)
     THEN alive' = FALSE /\ UNCHANGED <<cola, huobiWs>>
     ELSE /\ enviarATelegram(HuobiTexto("liquidation", ParOf(msg.topic),
                                        IF msg.data = "buy" THEN "Long" ELSE "Short"))
          /\ UNCHANGED <<alive, huobiWs>>
  /\ UNCHANGED <<now, cerrarHuobi, huobiRefresh, notHuobi>>

\* The one-second sender, lines 40-52: up to 20 texts leave the queue and are
\* handed to fetch, whose answers change nothing
ColaTick ==
  /\ alive
  /\ cola # <<>>
  /\ cola' = SubSeq(cola, COLA_BLOQUE + 1, Len(cola))
  /\ UNCHANGED <<now, alive, huobiWs, cerrarHuobi, huobiRefresh, notHuobi>>

\* Time passes: by then initHuobi has run, no hourly refresh is overdue, the
\* one-second sender has emptied the queue and the sockets that were closing
\* have emitted their events
HuobiElapse(d) ==
  /\ alive
  /\ now + d <= MaxHuobiTime
  /\ ~huobiRefresh.init
  /\ now < huobiRefresh.at + REFRESH_MS
  /\ cola = <<>>
  /\ \A i \in DOMAIN huobiWs : huobiWs[i].state \notin {"aborted", "closing"}
  /\ now' = now + d
  /\ UNCHANGED <<alive, huobiVars, notHuobi>>

\* Frames of the server: {ping: ts} of the market socket, {op: 'ping', ts} of
\* the notification socket, liquidation orders, a subscription answer, a topic
\* of another kind, text that is not JSON, binary that is not gzip
PingTs == "1700000000001"

HuobiFrames ==
  { HuobiFrame("garbage", FALSE, PongFrame(Undefined)),
    HuobiFrame("gzip", FALSE, PongFrame(Undefined)),
    HuobiFrame("gzip", TRUE,
      HuobiObj(PingTs, Undefined, Undefined, Undefined, Undefined, Undefined, Undefined)),
    HuobiFrame("text", TRUE,
      HuobiObj(Undefined, Undefined, "ping", PingTs, Undefined, Undefined, Undefined)),
    HuobiFrame("gzip", TRUE,
      HuobiObj(Undefined, Undefined, "sub", PingTs, HuobiTopic("BTC-USDT"),
               HuobiCid("BTC-USDT"), Undefined)),
    HuobiFrame("gzip", TRUE,
      HuobiObj(Undefined, Undefined, "notify", PingTs, "public.BTCUSDT.funding_rate",
               Undefined, "buy")) }
  \cup { HuobiFrame("gzip", TRUE,
           HuobiObj(Undefined, Undefined, "notify", PingTs, HuobiTopic(par),
                    Undefined, direction)) :
         par \in {"BTC-USDT"}, direction \in {"buy", "sell"} }

\* Frames are taken while the queue and the replies of the socket are short
WithinHuobi(i, frame) ==
  /\ Len(cola) < MaxCola
  /\ Len(huobiWs[i].sent) < Len(huobiWs[i].pares) + MaxPongs

HuobiNext ==
  \/ \E pares \in PairLists : initHuobi(pares)
  \/ \E pares \in PairLists : HourlyRefresh(pares)
  \/ \E i \in DOMAIN huobiWs : HuobiOpen(i)
  \/ \E i \in DOMAIN huobiWs : HuobiError(i)
  \/ \E i \in DOMAIN huobiWs : HuobiClose(i)
  \/ \E i \in DOMAIN huobiWs : \E frame \in HuobiFrames :
       WithinHuobi(i, frame) /\ HuobiMessage(i, frame)
  \/ ColaTick
  \/ \E d \in HuobiSteps : HuobiElapse(d)

SpecHuobi == ConnInit /\ [][HuobiNext]_vars

\* ------------------------------------ the fixed-interval variant (part_002)

\* texto.slice(0, 3990) + " […]" in place of a text longer than 3990
Truncado(m) == [id |-> m.id, len |-> 3990 + 4]

\* The first loop of the drain callback, lines 43-55, from message k on
RECURSIVE LotesFrom(_, _, _, _, _)
LotesFrom(q, k, lotes, lote, totalLength) ==
  IF k > Len(q)
  THEN lotes \o (IF Len(lote) > 0 THEN <<lote>> ELSE <<>>)
  ELSE IF q[k].len > 3990
  THEN LotesFrom(q, k + 1, lotes, Append(lote, Truncado(q[k])), totalLength)
  ELSE IF totalLength + q[k].len + 1 > 4000
  THEN LotesFrom(q, k + 1, Append(lotes, lote), <<q[k]>>, q[k].len + 1)
  ELSE LotesFrom(q, k + 1, lotes, Append(lote, q[k]), totalLength + q[k].len + 1)

\* lotes as the drain callback builds it, lines 40-56
Lotes(q) == LotesFrom(q, 1, <<>>, <<>>, 0)

\* `***[mensajes en lote ${i + 1}/${lotes.length}]***\n`.length, or "".length
EncabezadoLen(i, n) == IF n > 1 THEN 27 + Digits(i) + Digits(n) ELSE 0

\* (encabezado + lotes[i].join("\n")).length
LoteLen(lotes, i) ==
  EncabezadoLen(i, Len(lotes))
    + SumLen([k \in 1..Len(lotes[i]) |-> lotes[i][k].len]) + (Len(lotes[i]) - 1)

\* sendToTelegram(texto) for lot i: the call as the transport sees it
TransportCall(lotes, i, t) ==
  [at |-> t, ids |-> [k \in 1..Len(lotes[i]) |-> lotes[i][k].id],
   len |-> LoteLen(lotes, i), drain |-> TRUE]

\* What the handlers of part_002 modelled here never touch
notFixed == <<availableTokens, lastRefill, payloads, dropped, connVars, lastCall,
              lastTexto, statVars, huobiVars>>

\* enviarATelegram(text) of part_002 with text.length = len
enviarATelegramFixed(len) ==
  /\ alive
  /\ IF len > 0
     THEN /\ messageQueue' = Append(messageQueue, [id |-> nextId, len |-> len])
          /\ nextId' = nextId + 1
     ELSE UNCHANGED <<messageQueue, nextId>>
  /\ UNCHANGED <<now, alive, inflight, retryTimers, fixedVars, notFixed>>

\* The guard of the drain callback, line 39, negated: the callback goes on
DrainGoesOn(t) == messageQueue # <<>> /\ t - lastSentTime >= MIN_INTERVAL_MS

\* The drain callback, lines 38-60, up to its first await: a run that goes on
\* builds the lots from the whole queue and hands the first to sendToTelegram
FixedDrain ==
  /\ alive
  /\ now >= drainAt + FIXED_INTERVAL
  /\ drainAt' = now
  /\ IF DrainGoesOn(now)
     THEN LET lotes == Lotes(messageQueue) IN
          /\ cycles' = cycles \cup
               {[lotes |-> lotes, i |-> 1, phase |-> "sending", at |-> now,
                 call |-> Len(transportCalls) + 1]}
          /\ transportCalls' = Append(transportCalls, TransportCall(lotes, 1, now))
     ELSE UNCHANGED <<cycles, transportCalls>>
  /\ UNCHANGED <<now, alive, messageQueue, nextId, lastSentTime, inflight,
                 retryTimers, notFixed>>

\* The 429 branch of sendToTelegram, lines 77-80: the timer of the retry
FixedRetryOn429(first, retryCount, r, t) ==
  IF r.kind = "429" /\ retryCount < 3
  THEN {[call |-> first, retryCount |-> retryCount + 1,
         due |-> t + RetryWait(r.hint, retryCount)]}
  ELSE {}

\* The transport answers the send a drain invocation awaits, lines 60-62:
\* sendToTelegram returns whatever the answer, lastSentTime is set and the
\* pause of MIN_INTERVAL_MS begins
SendAnswered(c, r) ==
  /\ alive
  /\ c \in cycles
  /\ c.phase = "sending"
  /\ lastSentTime' = now
  /\ cycles' = (cycles \ {c}) \cup
       {[c EXCEPT !.phase = "pausing", !.at = now + MIN_INTERVAL_MS]}
  /\ retryTimers' = retryTimers \cup FixedRetryOn429(c.call, 0, r, now)
  /\ UNCHANGED <<now, alive, messageQueue, nextId, inflight, transportCalls,
                 drainAt, notFixed>>

\* The pause is over, lines 57-64: the next lot is handed to sendToTelegram,
\* or, after the last lot, messageQueue.splice(0, messageQueue.length)
PauseOver(c) ==
  /\ alive
  /\ c \in cycles
  /\ c.phase = "pausing"
  /\ now >= c.at
  /\ IF c.i < Len(c.lotes)
     THEN /\ cycles' = (cycles \ {c}) \cup
               {[c EXCEPT !.i = c.i + 1, !.phase = "sending", !.at = now,
                          !.call = Len(transportCalls) + 1]}
          /\ transportCalls' =
               Append(transportCalls, TransportCall(c.lotes, c.i + 1, now))
          /\ UNCHANGED messageQueue
     ELSE /\ cycles' = cycles \ {c}
          /\ messageQueue' = <<>>
          /\ UNCHANGED transportCalls
  /\ UNCHANGED <<now, alive, nextId, lastSentTime, inflight, retryTimers,
                 drainAt, notFixed>>

\* setTimeout(() => sendToTelegram(text, retryCount + 1), wait) fires, line 80
FixedRetryFire(t) ==
  /\ alive
  /\ t \in retryTimers
  /\ now >= t.due
  /\ retryTimers' = retryTimers \ {t}
  /\ inflight' = inflight \cup
       {[call |-> Len(transportCalls) + 1, first |-> t.call,
         retryCount |-> t.retryCount]}
  /\ transportCalls' = Append(transportCalls,
       [transportCalls[t.call] EXCEPT !.at = now, !.drain = FALSE])
  /\ UNCHANGED <<now, alive, messageQueue, nextId, lastSentTime, cycles, drainAt,
                 notFixed>>

\* The transport answers a retry, lines 75-86
RetryAnswered(f, r) ==
  /\ alive
  /\ f \in inflight
  /\ inflight' = inflight \ {f}
  /\ retryTimers' = retryTimers \cup FixedRetryOn429(f.first, f.retryCount, r, now)
  /\ UNCHANGED <<now, alive, messageQueue, nextId, fixedVars, notFixed>>

\* Time passes by one period of the drain timer: the callback has run at this
\* time, the timers that are due have fired and the transport has answered
\* within MaxLatency
FixedElapse ==
  /\ alive
  /\ now + FIXED_INTERVAL <= MaxFixedTime
  /\ now < drainAt + FIXED_INTERVAL
  /\ \A c \in cycles :
       IF c.phase = "sending" THEN now + FIXED_INTERVAL <= c.at + MaxLatency
                              ELSE now < c.at
  /\ \A t \in retryTimers : now < t.due
  /\ \A f \in inflight : now + FIXED_INTERVAL <= transportCalls[f.call].at + MaxLatency
  /\ now' = now + FIXED_INTERVAL
  /\ UNCHANGED <<alive, messageQueue, nextId, inflight, retryTimers, fixedVars,
                 notFixed>>

\* 429 answers are followed while few retries have been set
Within429(r) ==
  r.kind = "429" =>
    Cardinality(retryTimers)
      + Cardinality({k \in DOMAIN transportCalls : ~transportCalls[k].drain})
      < Max429

\* The load of part_002: Date.now() is far from the initial lastSentTime = 0
FixedInit ==
  /\ now = FixedStart
  /\ availableTokens = TOKEN_CAP
  /\ lastRefill = 0
  /\ messageQueue = <<>>
  /\ nextId = 1
  /\ inflight = {}
  /\ retryTimers = {}
  /\ payloads = <<>>
  /\ dropped = {}
  /\ alive = TRUE
  /\ sockets = [ex \in Exchanges |-> <<NewSocket>>]
  /\ reconnectTimers = {}
  /\ connected = [ex \in Exchanges |-> FALSE]
  /\ lastDelay = [ex \in Exchanges |-> 0]
  /\ failRun = [ex \in Exchanges |-> 0]
  /\ eventos = <<>>
  /\ lastCall = [n |-> 0, len |-> 0]
  /\ lastTexto = NoTexto
  /\ recorded = <<>>
  /\ stats5mAt = 0
  /\ statsLargasAt = 0
  /\ cola = <<>>
  /\ huobiWs = <<>>
  /\ cerrarHuobi = 0
  /\ huobiRefresh = [init |-> TRUE, at |-> 0]
  /\ lastSentTime = 0
  /\ cycles = {}
  /\ transportCalls = <<>>
  /\ drainAt = FixedStart

FixedNext ==
  \/ \E len \in FixedLens : nextId <= MaxFixedMsgs /\ enviarATelegramFixed(len)
  \/ FixedDrain
  \/ \E c \in cycles : \E r \in Responses : Within429(r) /\ SendAnswered(c, r)
  \/ \E c \in cycles : PauseOver(c)
  \/ \E t \in retryTimers : FixedRetryFire(t)
  \/ \E f \in inflight : \E r \in Responses : Within429(r) /\ RetryAnswered(f, r)
  \/ FixedElapse

SpecFixed == FixedInit /\ [][FixedNext]_vars

\* ------------------------------------------------------- derived notions

Range(f) == {f[i] : i \in DOMAIN f}

\* Places of message id: in the queue, and in the payloads built so far
QueuePlaces(id) == {i \in DOMAIN messageQueue : messageQueue[i].id = id}
PayloadPlaces(id) ==
  {<<k, j>> \in (DOMAIN payloads) \X (1..AGRUPA_TAMANIO) :
     j \in DOMAIN payloads[k] /\ payloads[k][j] = id}

\* Payloads that have a transport call in flight or a retry timer pending
ActiveTexts == {c.text : c \in inflight} \cup {t.text : t \in retryTimers}

\* The calls the transport answers in a step, and the timers a step sets or fires
Answered == inflight \ inflight'
TimersSet == retryTimers' \ retryTimers
TimersFired == retryTimers \ retryTimers'
PayloadBuilt == Len(payloads') = Len(payloads) + 1
NewPayload == payloads'[Len(payloads')]

HintMs(hint) == IF hint.present THEN hint.value * 1000 ELSE 0

\* The state an event leaves its socket in, and the step in which socket i of
\* exchange ex emits the event
StateAfter(event) ==
  CASE event = "open" -> "open"
    [] event = "error" -> "errored"
    [] event = "close" -> "closed"
Fired(ex, i, event) ==
  /\ i \in DOMAIN sockets[ex]
  /\ sockets[ex][i].state # StateAfter(event)
  /\ sockets'[ex][i].state = StateAfter(event)
SocketEvents == {"open", "error", "close"}

\* The reconnect timers a step sets for exchange ex
ReconnectsSet(ex) == {t \in reconnectTimers' \ reconnectTimers : t.ex = ex}

\* The subscriptions sent on a Huobi socket, and those of a list of pairs
SubsSent(ws) == SelectSeq(ws.sent, LAMBDA f : f.op = "sub")
SubsOf(pares) == [k \in 1..Len(pares) |-> SubFrame(pares[k])]

\* The Huobi sockets that are connecting or open
LiveHuobi(wss) == {i \in DOMAIN wss : wss[i].state \in {"connecting", "open"}}

\* part_002: the sendToTelegram calls made by the drain callback, in order,
\* and the messages a drain invocation has put into its lots
DrainCalls == SelectSeq(transportCalls, LAMBDA call : call.drain)
IdsOfLotes(lotes) ==
  UNION {{lotes[i][k].id : k \in DOMAIN lotes[i]} : i \in DOMAIN lotes}

\* The tokens taken from the bucket so far: one for each payload whose first
\* send has returned; and the transport calls the state still shows: the
\* first send of each payload and the retries of the payloads that have a
\* call in flight or a timer pending (the retries of finished payloads are
\* not counted)
FirstSendsAwaited == Cardinality({c \in inflight : c.retryCount = 0})
TokensTaken == Len(payloads) - FirstSendsAwaited
RetriesShown ==
  LET live == inflight \cup {[text |-> t.text, retryCount |-> t.retryCount,
                              sends |-> t.sends] : t \in retryTimers}
  IN  Cardinality({<<c, k>> \in live \X (1..MAX_RETRIES) : c.sends > k})
CallsShown == Len(payloads) + RetriesShown

\* ----------------------------------------------------------------- claims

\* C1: every message accepted into messageQueue is, at any moment and under
\* any interleaving of encolarMensaje, drain ticks and pending sends, either
\* still in the queue (once) or in exactly one payload (once): it is never
\* removed without being put in a payload and never put in two payloads.
C1_ExactlyOnePlace ==
  \A id \in 1..(nextId - 1) :
    Cardinality(QueuePlaces(id)) + Cardinality(PayloadPlaces(id)) = 1

\* Two drain invocations await their sends at the same time.
C1_Witness == Cardinality({c \in inflight : c.retryCount = 0}) = 2

\* C2: messages reach the transport in enqueue order: the payloads, in the
\* order of their first sends, carry increasing message identities, also
\* inside one payload.
C2_EnqueueOrder ==
  \A k1, k2 \in DOMAIN payloads :
    \A j1 \in DOMAIN payloads[k1], j2 \in DOMAIN payloads[k2] :
      (k1 < k2 \/ (k1 = k2 /\ j1 < j2)) => payloads[k1][j1] < payloads[k2][j2]

\* Two messages in one payload, sent and answered.
C2_Witness == payloads = << <<1, 2>> >> /\ inflight = {} /\ retryTimers = {}

C4_RetryScheduled ==
  [][\A c \in Answered : \A h \in RetryAfterOpts :
       (c.retryCount < MAX_RETRIES /\ Respond(c, [kind |-> "429", hint |-> h])) =>
         /\ Cardinality(TimersSet) = 1
         /\ \A t \in TimersSet : t.text = c.text /\ t.retryCount = c.retryCount + 1
         /\ Cardinality({t \in retryTimers' : t.text = c.text}) = 1
         /\ \A d \in inflight' : d.text # c.text]_vars

\* A first send was answered 429 and its retry is pending.
C4_Witness == \E t \in retryTimers : t.retryCount = 1 /\ t.sends = 1

\* C5: the retry set by a 429 answer with retry_after = h is due no earlier
\* than h seconds and no earlier than 2^retryCount seconds after the answer,
\* and a retry is sent no earlier than it is due; once a send returned ok the
\* payload has neither a call in flight nor a timer, and a payload that has
\* neither is never sent again.
C5_RetryTiming ==
  [][/\ \A c \in Answered : \A h \in RetryAfterOpts :
          Respond(c, [kind |-> "429", hint |-> h]) =>
            \A t \in TimersSet :
              /\ t.due >= now + HintMs(h)
              /\ t.due >= now + Pow2(c.retryCount) * 1000
     /\ \A t \in TimersFired : now >= t.due
     /\ \A c \in Answered :
          Respond(c, [kind |-> "ok", hint |-> NoHint]) => c.text \notin ActiveTexts'
     /\ \A x \in ActiveTexts' :
          x \in ActiveTexts \/ (PayloadBuilt /\ x.items = NewPayload)]_vars

\* A retry is in flight after a 429 that carried a hint larger than the
\* back-off (first call no earlier than 1000, answer and timer of 2000).
C5_Witness == \E c \in inflight : c.retryCount = 1 /\ now >= 3000

\* C6: a payload is sent at most 4 times; a 429 answer to the 4th send sets
\* no timer and leaves messageQueue and every pending retry unchanged.
C6_BoundedRetries ==
  [][/\ \A c \in inflight' : c.sends <= 4
     /\ \A c \in Answered : \A h \in RetryAfterOpts :
          (c.sends = 4 /\ Respond(c, [kind |-> "429", hint |-> h])) =>
            /\ retryTimers' = retryTimers
            /\ messageQueue' = messageQueue
            /\ c.text \notin ActiveTexts']_vars

\* A payload got its fourth 429 and was given up while another payload's
\* retry is pending.
C6_Witness == dropped # {} /\ retryTimers # {}

\* C7: availableTokens never exceeds TOKEN_CAP.
C7_TokensBounded == availableTokens <= TOKEN_CAP

\* A refill after a send was clamped at the capacity.
C7_Witness == availableTokens = TOKEN_CAP /\ Len(payloads) > 0

\* C8: a payload is built and sent only when the bucket holds at least one
\* token at that moment (otherwise the drain leaves the queue untouched), and
\* the bucket loses exactly one token when, and only when, the send of a
\* payload the drain awaits returns.
C8_TokenPerSend ==
  [][/\ PayloadBuilt => availableTokens' >= TOKEN_UNIT
     /\ availableTokens' < TOKEN_UNIT =>
          /\ payloads' = payloads
          /\ \A i \in DOMAIN messageQueue : messageQueue'[i] = messageQueue[i]
     /\ \A c \in Answered :
          c.retryCount = 0 => availableTokens' = availableTokens - TOKEN_UNIT
     /\ availableTokens' < availableTokens =>
          Cardinality({c \in Answered : c.retryCount = 0}) = 1]_vars

\* A drain tick found the bucket below one token and left the queue alone.
C8_Witness ==
  /\ availableTokens < TOKEN_UNIT
  /\ messageQueue # <<>>
  /\ lastRefill = now
  /\ now > 0

\* C9 (as claimed): every payload handed to sendToTelegram, header and time
\* prefixes included, is at most MAX_TG_LENGTH characters long.
C9_PayloadWithinLimit == \A c \in inflight : c.text.length <= MAX_TG_LENGTH

\* C10 (as claimed): when the drain runs with a token and the head of the
\* queue alone exceeds the ceiling, the head leaves the queue in a payload of
\* at most MAX_TG_LENGTH characters.
C10_OversizedHeadSent ==
  [][(/\ lastRefill' # lastRefill
      /\ availableTokens' >= TOKEN_UNIT
      /\ messageQueue # <<>>
      /\ Head(messageQueue).len > MAX_TG_LENGTH) =>
        /\ PayloadBuilt
        /\ Head(messageQueue).id \in Range(NewPayload)
        /\ QueuePlaces(Head(messageQueue).id)' = {}]_vars

\* C11 (as claimed): a drain tick that finds, after its refill, at least one
\* and fewer than two tokens and a non-empty queue takes exactly one payload
\* out of the queue; the payload is a prefix of the queue and the rest of the
\* queue stays as it was, in order.
C11_OnePayloadPerTick ==
  [][(/\ lastRefill' # lastRefill
      /\ availableTokens' >= TOKEN_UNIT
      /\ availableTokens' < 2 * TOKEN_UNIT
      /\ messageQueue # <<>>) =>
        /\ PayloadBuilt
        /\ \E n \in 1..Len(messageQueue) :
             /\ NewPayload = [i \in 1..n |-> messageQueue[i].id]
             /\ messageQueue' = SubSeq(messageQueue, n + 1, Len(messageQueue))]_vars

\* C12 (as claimed): every call of encolarMensaje adds exactly one entry at
\* the tail of messageQueue and leaves the earlier entries as they were.
C12_AlwaysAppends ==
  [][lastCall' # lastCall =>
       /\ Len(messageQueue') = Len(messageQueue) + 1
       /\ SubSeq(messageQueue', 1, Len(messageQueue)) = messageQueue]_vars

\* C12 (amended): encolarMensaje never fails; called with a non-empty text it
\* adds exactly one entry, carrying that text, at the tail of messageQueue and
\* leaves the earlier entries and their order as they were; called with an
\* empty text it leaves messageQueue as it was.
C12_AppendsNonEmpty ==
  [][lastCall' # lastCall =>
       /\ alive' = alive
       /\ IF lastCall'.len > 0
          THEN /\ Len(messageQueue') = Len(messageQueue) + 1
               /\ SubSeq(messageQueue', 1, Len(messageQueue)) = messageQueue
               /\ messageQueue'[Len(messageQueue')].len = lastCall'.len
          ELSE messageQueue' = messageQueue]_vars

\* An empty text was turned down after two texts had been queued.
C12_Witness == lastCall.n = 3 /\ lastCall.len = 0 /\ Len(messageQueue) = 2

\* C13: every open, close and error handler of OKX and of Binance appends
\* its notification to the tail of messageQueue and starts no transport call:
\* the calls in flight, the retry timers and the payloads built stay as they
\* were.
C13_NotifiedThroughQueue ==
  [][\A ex \in Exchanges : \A i \in DOMAIN sockets[ex] : \A event \in SocketEvents :
       Fired(ex, i, event) =>
         /\ messageQueue' =
              Append(messageQueue, [id |-> nextId, len |-> NotificationLen(ex, event)])
         /\ inflight' = inflight
         /\ retryTimers' = retryTimers
         /\ payloads' = payloads]_vars

\* The queue holds the notifications of an OKX socket that opened, failed and
\* closed, in that order.
C13_Witness ==
  /\ Len(messageQueue) = 3
  /\ \A k \in 1..3 :
       messageQueue[k].len = NotificationLen("OKX", <<"open", "error", "close">>[k])
  /\ inflight = {}

\* C14 (as claimed): for each exchange, a reconnect delay is at most 32000 ms
\* and not smaller than the delay set before it in the same run of close and
\* error events without an open event, and the first failure after an open
\* event is given 1000 ms.
C14_BackoffNonDecreasing ==
  [][\A ex \in Exchanges : \A t \in ReconnectsSet(ex) :
       /\ t.delay <= 32000
       /\ t.delay >= lastDelay[ex]
       /\ failRun[ex] = 0 => t.delay = 1000]_vars

\* C15 (as claimed): for each exchange, the k-th close or error event in a
\* row without an open event sets its reconnect after 1000 * 2^min(k-1, 5) ms.
C15_DelayOfKthFailure ==
  [][\A ex \in Exchanges : \A t \in ReconnectsSet(ex) :
       t.delay = 1000 * Pow2(Min(failRun[ex], 5))]_vars

\* C16: every close and every error event of a socket sets a reconnect timer
\* for its exchange, and, timers firing, whenever an exchange has a reconnect
\* pending a further socket of that exchange is eventually created, however
\* many sockets failed before.
C16_ReconnectEventually ==
  /\ [][\A ex \in Exchanges : \A i \in DOMAIN sockets[ex] :
          (Fired(ex, i, "error") \/ Fired(ex, i, "close")) =>
            \E t \in ReconnectsSet(ex) : t.by = i]_vars
  /\ \A ex \in Exchanges : \A n \in 1..(MaxConnEvents + 1) :
       (TimersOf(ex) # {} /\ Len(sockets[ex]) = n) ~> (Len(sockets[ex]) > n)

\* A third OKX socket is connecting after two failures in a row, no timer left.
C16_Witness ==
  /\ Len(sockets["OKX"]) = 3
  /\ failRun["OKX"] = 2
  /\ TimersOf("OKX") = {}
  /\ sockets["OKX"][3].state = "connecting"

\* C17: the keep-alive interval of a socket is set only while the socket is
\* open (after its open event, before its first close or error event); the
\* step that sets a reconnect timer leaves the interval of the failing socket
\* cleared; and a ping is sent only on an open socket.
C17_KeepAliveOnlyWhileOpen ==
  [][\A ex \in Exchanges :
       /\ \A i \in DOMAIN sockets'[ex] :
            sockets'[ex][i].pingInt => sockets'[ex][i].state = "open"
       /\ \A t \in ReconnectsSet(ex) : ~sockets'[ex][t.by].pingInt
       /\ \A i \in DOMAIN sockets[ex] :
            /\ sockets[ex][i].pingInt => sockets[ex][i].state = "open"
            /\ (sockets'[ex][i].pinged /\ ~sockets[ex][i].pinged) =>
                 sockets[ex][i].state = "open"]_vars

\* A socket that was pinged while open has failed and closed, its interval
\* cleared, and its reconnects are pending.
C17_Witness ==
  \E ex \in Exchanges : \E i \in DOMAIN sockets[ex] :
    /\ sockets[ex][i].pinged
    /\ sockets[ex][i].state = "closed"
    /\ sockets[ex][i].reconnectAttempts = 2
    /\ ~sockets[ex][i].pingInt

\* Sockets of exchange ex that are connecting or open
LiveSockets(ex) ==
  {i \in DOMAIN sockets[ex] : sockets[ex][i].state \in {"connecting", "open"}}

\* C18 (as claimed): for each exchange the sockets that are connecting or
\* open and the pending reconnect timers are together at most one.
C18_OneSocketPerExchange ==
  \A ex \in Exchanges : Cardinality(LiveSockets(ex)) + Cardinality(TimersOf(ex)) <= 1

\* C19 (as claimed): okxConnected (resp. binanceConnected) is true in exactly
\* the states where a socket of the exchange has emitted open and has not
\* emitted close or error since.
C19_FlagMeansOpenSocket ==
  \A ex \in Exchanges :
    connected[ex] <=> (\E i \in DOMAIN sockets[ex] : sockets[ex][i].state = "open")

\* The step changes the connection state of exchange ex: the connected flag,
\* a socket with its keep-alive interval and its reconnect counter, or the
\* pending reconnect timers
ConnChanged(ex) ==
  \/ connected'[ex] # connected[ex]
  \/ sockets'[ex] # sockets[ex]
  \/ TimersOf(ex)' # TimersOf(ex)

\* C20: the step of an open, close or error event of one exchange, of one of
\* its keep-alive or reconnect timers, leaves the other exchange's connected
\* flag, sockets (keep-alive interval and reconnect counter) and pending
\* reconnect timers unchanged; the step of a message event leaves them
\* unchanged for both exchanges.
C20_ExchangesIndependent ==
  [][/\ \A ex \in Exchanges : \A other \in Exchanges \ {ex} :
          ConnChanged(ex) => ~ConnChanged(other)
     /\ (eventos' # eventos) => \A ex \in Exchanges : ~ConnChanged(ex)]_vars

\* Binance is connected, pinged and has delivered a liquidation while OKX has
\* failed twice and waits for its two reconnects.
C20_Witness ==
  /\ connected["Binance"]
  /\ sockets["Binance"][1].pinged
  /\ sockets["Binance"][1].pingInt
  /\ eventos # <<>>
  /\ failRun["OKX"] = 2
  /\ Cardinality(TimersOf("OKX")) = 2

\* The frame is not a well-formed liquidation: not JSON, of another shape,
\* or with an entry that is null or has no side
Malformed(frame) ==
  \/ ~frame.json
  \/ ~frame.shape
  \/ \E k \in DOMAIN frame.data : ~frame.data[k].obj \/ frame.data[k].side = "absent"

\* C21 (as claimed): a message handler that is given a frame that is not
\* JSON or not a well-formed liquidation records no event, enqueues no
\* message, does not end the process and leaves sockets, flags and timers as
\* they were.
C21_MalformedFrameDropped ==
  [][\A ex \in Exchanges : \A i \in DOMAIN sockets[ex] : \A frame \in FrameInputs :
       (Malformed(frame) /\ Message(ex, i, frame)) =>
         /\ eventos' = eventos
         /\ messageQueue' = messageQueue
         /\ alive' = alive
         /\ sockets' = sockets
         /\ connected' = connected
         /\ reconnectTimers' = reconnectTimers]_vars

\* Price and quantity of the text built last
LastPrice == PriceOf(lastTexto.d)
LastQty == QtyOf(lastTexto.d)

\* C22 (as claimed): the notional of a liquidation text is the sentinel when
\* the price or the quantity is absent, empty, not a number or zero, and is
\* the product of price and quantity when both are positive numbers.
C22_NotionalIsProduct ==
  lastTexto.ex # "none" =>
    IF NumTruthy(LastPrice) /\ NumTruthy(LastQty)
    THEN /\ lastTexto.usd.kind = "number"
         /\ lastTexto.usd.milli * 10 = LastPrice.v * LastQty.v
    ELSE lastTexto.usd = Sentinel

\* C22 (amended): the notional is the sentinel when the price or the quantity
\* is absent, empty, not a number or zero, never "$0" or "$NaN" then; when
\* both are positive numbers it is the product as toLocaleString() prints it,
\* rounded to three decimals, which is "$0" for a product below 0.0005.
C22_NotionalIsRoundedProduct ==
  lastTexto.ex # "none" =>
    IF NumTruthy(LastPrice) /\ NumTruthy(LastQty)
    THEN /\ lastTexto.usd.kind = "number"
         /\ lastTexto.usd.milli * 10 <= LastPrice.v * LastQty.v + 5
         /\ lastTexto.usd.milli * 10 > LastPrice.v * LastQty.v - 5
         /\ (lastTexto.usd.milli = 0) <=> (LastPrice.v * LastQty.v < 5)
    ELSE lastTexto.usd = Sentinel

\* A Binance text was built from a price that is not a number and a positive
\* quantity.
C22_Witness ==
  /\ lastTexto.ex = "Binance"
  /\ LastPrice.nan
  /\ NumTruthy(LastQty)
  /\ lastTexto.usd = Sentinel

\* The events ever handed to addEvento whose timestamp is within the last
\* windowMs milliseconds
RecordedIn(windowMs) == SelectSeq(recorded, LAMBDA e : e.ts >= now - windowMs)

LongWindows == {900000, 1800000, 3600000}

\* C23: resumenEstadisticas(w) is null exactly when no recorded event lies in
\* the last w milliseconds; a run of enviarEstadisticas5m enqueues one
\* message when the 5-minute window has an event and nothing when it has
\* none, and a run of enviarEstadisticasLargas enqueues one message when one
\* of its windows has an event and nothing when all three are empty.
C23_NoReportForEmptyWindows ==
  [][/\ \A w \in Horizons :
          resumenEstadisticas(eventos, now, w).null <=> (RecordedIn(w) = <<>>)
     /\ (stats5mAt' # stats5mAt) =>
          IF RecordedIn(300000) = <<>>
          THEN messageQueue' = messageQueue
          ELSE Len(messageQueue') = Len(messageQueue) + 1
     /\ (statsLargasAt' # statsLargasAt) =>
          IF \A w \in LongWindows : RecordedIn(w) = <<>>
          THEN messageQueue' = messageQueue
          ELSE Len(messageQueue') = Len(messageQueue) + 1]_vars

\* Both timers have just run, every event recorded being more than an hour
\* old.
C23_Witness ==
  /\ recorded # <<>>
  /\ RecordedIn(3600000) = <<>>
  /\ stats5mAt = now
  /\ statsLargasAt = now

\* C24: whenever a window has events, buy + sell = total and the two
\* percentages, each rounded to one decimal, sum to 100.0 within 0.1; with
\* events of one side only they are exactly 100.0 and 0.0.
C24_PercentagesSum ==
  \A w \in Horizons :
    LET r == resumenEstadisticas(eventos, now, w) IN
    ~r.null =>
      /\ r.buy + r.sell = r.total
      /\ r.pctBuy + r.pctSell >= 999
      /\ r.pctBuy + r.pctSell <= 1001
      /\ r.sell = 0 => (r.pctBuy = 1000 /\ r.pctSell = 0)
      /\ r.buy = 0 => (r.pctBuy = 0 /\ r.pctSell = 1000)

\* The 15-minute window holds one buy and two sells: 33.3 and 66.7.
C24_Witness ==
  LET r == resumenEstadisticas(eventos, now, 900000) IN
  r.total = 3 /\ r.pctBuy = 333 /\ r.pctSell = 667

\* C25: for each horizon of 5, 15, 30 and 60 minutes the summary counts
\* exactly the events ever recorded whose timestamp is at least now minus the
\* horizon, split by side; the events pruned from eventos are all older than
\* the longest horizon.
C25_SummaryCountsWindow ==
  /\ \A w \in Horizons :
       LET r == resumenEstadisticas(eventos, now, w)
           inWindow == RecordedIn(w)
       IN  /\ r.total = Len(inWindow)
           /\ r.buy = CountTipo(inWindow, "buy")
           /\ r.sell = CountTipo(inWindow, "sell")
  /\ Len(eventos) <= Len(recorded)
  /\ eventos = SubSeq(recorded, Len(recorded) - Len(eventos) + 1, Len(recorded))
  /\ \A k \in 1..(Len(recorded) - Len(eventos)) : recorded[k].ts < now - 3600000

\* An event older than an hour has been pruned, and the 60-minute window
\* holds the other two, a buy and a sell, one of them outside the 30-minute
\* window.
C25_Witness ==
  /\ Len(recorded) = 3
  /\ Len(eventos) = 2
  /\ resumenEstadisticas(eventos, now, 3600000).buy = 1
  /\ resumenEstadisticas(eventos, now, 3600000).sell = 1
  /\ resumenEstadisticas(eventos, now, 1800000).total = 1
\* C26: every pair-list refresh (the initial one and the hourly ones) that
\* returns a non-empty list closes the current Huobi socket and creates one
\* new socket for the new list; subscriptions are sent only when a socket
\* opens, one for each pair of the list the socket was created with, in the
\* order of the list; the list of a socket never changes; at most one Huobi
\* socket is connecting or open.
C26_RefreshReplacesSocket ==
  [][ /\ \A pares \in PairLists \ {<<>>} :
           (initHuobi(pares) \/ HourlyRefresh(pares)) =>
             /\ Len(huobiWs') = Len(huobiWs) + 1
             /\ huobiWs'[Len(huobiWs')] = NewHuobiWs(pares, now)
             /\ cerrarHuobi # 0 =>
                  huobiWs'[cerrarHuobi].state \notin {"connecting", "open"}
             /\ \A i \in DOMAIN huobiWs : huobiWs'[i].sent = huobiWs[i].sent
      /\ \A i \in DOMAIN huobiWs :
           /\ huobiWs'[i].pares = huobiWs[i].pares
           /\ SubsSent(huobiWs'[i]) # SubsSent(huobiWs[i]) =>
                /\ huobiWs[i].state = "connecting"
                /\ huobiWs'[i].state = "open"
                /\ huobiWs'[i].sent = SubsOf(huobiWs[i].pares)
      /\ \A i \in DOMAIN huobiWs' :
           huobiWs'[i].state = "open" =>
             SubsSent(huobiWs'[i]) = SubsOf(huobiWs'[i].pares)
      /\ Cardinality(LiveHuobi(huobiWs')) <= 1
    ]_vars

\* An hourly refresh has replaced an open socket subscribed to one pair by a
\* socket that has opened and subscribed to the two pairs of the new list
C26_Witness ==
  /\ Len(huobiWs) = 2
  /\ now >= REFRESH_MS
  /\ huobiWs[1].pares = <<"ETH-USDT">>
  /\ SubsSent(huobiWs[1]) = SubsOf(<<"ETH-USDT">>)
  /\ huobiWs[1].state \in {"closing", "closed"}
  /\ huobiWs[2].state = "open"
  /\ SubsSent(huobiWs[2]) = SubsOf(<<"BTC-USDT", "ETH-USDT">>)

\* C27: a close or error event of the Huobi socket schedules a reconnect: the
\* socket of the last conectarHuobi call is not left closed while time passes
\* towards the next hourly refresh, a new connection attempt has replaced it
\* before the clock moves on.
C27_ReconnectAfterClose ==
  [][ (now' > now /\ cerrarHuobi # 0) => huobiWs[cerrarHuobi].state # "closed" ]_vars

\* C28: for every server frame {ping: ts} on an open Huobi socket the client
\* sends exactly one frame, {pong: ts} with the ts value of the ping, and the
\* frame enqueues no message.
C28_PongEchoesPing ==
  [][ \A i \in DOMAIN huobiWs : \A frame \in HuobiFrames :
        (HuobiMessage(i, frame) /\ frame.json /\ frame.msg.ping # Undefined) =>
          /\ huobiWs'[i].sent = Append(huobiWs[i].sent, PongFrameOfPing(frame.msg))
          /\ cola' = cola
    ]_vars

\* C29: in part_002 the payloads the drain hands to the transport hold their
\* messages oldest first, and any two consecutive sendToTelegram calls of the
\* drain are at least MIN_INTERVAL_MS apart, also when a tick fires while an
\* earlier invocation is still awaiting (so no two fall on one tick).
C29_DrainSendsSpaced ==
  /\ \A k \in DOMAIN DrainCalls :
       \A a, b \in DOMAIN DrainCalls[k].ids :
         a < b => DrainCalls[k].ids[a] < DrainCalls[k].ids[b]
  /\ \A k \in 1..(Len(DrainCalls) - 1) :
       DrainCalls[k + 1].at - DrainCalls[k].at >= MIN_INTERVAL_MS

\* C30: in part_002, when a drain invocation ends, every message of the queue
\* that the invocation did not put into one of its lots is still in
\* messageQueue.
C30_CycleKeepsLaterMessages ==
  [][ \A c \in cycles :
        (PauseOver(c) /\ c.i = Len(c.lotes)) =>
          \A k \in DOMAIN messageQueue :
            messageQueue[k].id \notin IdsOfLotes(c.lotes) =>
              \E j \in DOMAIN messageQueue' : messageQueue'[j] = messageQueue[k]
    ]_vars

\* C31: in part_002 every payload handed to sendToTelegram, by the drain or by
\* a retry, is at most 4000 characters long.
C31_PayloadWithinLimit ==
  \A k \in DOMAIN transportCalls : transportCalls[k].len <= 4000

\* C37: in part_002 no message is put into more than one payload that the
\* drain hands to the transport.
C37_NoMessageInTwoPayloads ==
  \A j, k \in DOMAIN DrainCalls :
    j < k => Range(DrainCalls[j].ids) \cap Range(DrainCalls[k].ids) = {}

\* C38: in part_000 a pair-list refresh that yields an empty list leaves the
\* Huobi sockets as they are: none is closed, none is created, no frame is
\* sent, and cerrarHuobi still closes the same socket.
C38_EmptyListKeepsSocket ==
  [][ (initHuobi(<<>>) \/ HourlyRefresh(<<>>)) =>
        huobiWs' = huobiWs /\ cerrarHuobi' = cerrarHuobi
    ]_vars

\* The hourly refresh has run with an empty list on the open socket that
\* initHuobi had created an hour before
C38_Witness ==
  /\ huobiRefresh.at = REFRESH_MS
  /\ Len(huobiWs) = 1
  /\ huobiWs[1].since = 0
  /\ huobiWs[1].state = "open"
  /\ SubsSent(huobiWs[1]) = SubsOf(<<"BTC-USDT", "ETH-USDT">>)

\* C32: the drain timer firing and every transport call returning, every
\* message that is in messageQueue while the clock still has DrainSlack to run
\* is eventually put into a payload handed to sendToTelegram, whatever the
\* lengths of the queued messages.
C32_EveryMessageSent ==
  \A id \in 1..MaxMsgs :
    [](QueuePlaces(id) # {} /\ now + DrainSlack <= MaxTime
         => <>(PayloadPlaces(id) # {}))

\* C33: every payload the drain builds consists of the first n messages of
\* messageQueue, in queue order, for some n between 1 and AGRUPA_TAMANIO; they
\* leave the queue, and the header of the payload states the count n.
C33_PayloadIsQueueHead ==
  [][ PayloadBuilt =>
        \E n \in 1..AGRUPA_TAMANIO :
          /\ n <= Len(messageQueue)
          /\ NewPayload = [i \in 1..n |-> messageQueue[i].id]
          /\ messageQueue' = SubSeq(messageQueue, n + 1, Len(messageQueue))
          /\ \E c \in inflight' \ inflight :
               c.text.items = NewPayload /\ c.text.count = n
    ]_vars

\* A payload of AGRUPA_TAMANIO short texts left the sixth for the next
\* payload, whose header states 1
C33_Witness ==
  /\ payloads = << <<1, 2, 3, 4, 5>>, <<6>> >>
  /\ \E c \in inflight : c.text.items = <<6>> /\ c.text.count = 1

\* C34: availableTokens is never negative, also when a tick passes its token
\* check while an earlier invocation of the drain is suspended in its send.
C34_TokensNeverNegative == availableTokens >= 0

\* C35: the transport calls made so far, retries included, never exceed the
\* tokens taken from the bucket so far, even when the token that each first
\* send still awaited will take on its return is counted as taken.
C35_CallsWithinTokens == CallsShown <= TokensTaken + FirstSendsAwaited

====
